---- MODULE Spec2Model ----
(***************************************************************************)
(* Model of the cache-backed acquisition layer (download_to_cache,         *)
(* get_cached_file_for_url, prune_cache), of the session controllers       *)
(* (interactive_play, play_from_list_file, the single-URL branch of        *)
(* handle_input) and of the history files (append_history, the clear       *)
(* command of show_history_paged) of yt_audio_player.py.                   *)
(*                                                                         *)
(* The cache directory is a sequence of file names ordered by access time  *)
(* (oldest first).  Times are counted in tenths of a second.               *)
(***************************************************************************)
EXTENDS Integers, Sequences, FiniteSets, TLC

(* ---------------- bounds of the model ---------------- *)
MaxItems == 3
MaxCacheFiles == 2
MaxCount == 3
MaxLedger == 3
MaxLines == 2

(* ---------------- program constants ---------------- *)
DefaultCacheRetryCount == 3
BaseDelay == 10
MaxTries == 3
StreakCap == MaxTries + 1

None == "none"

\* the value of returncode when the last step saw no player exit
NoExit == -1

VARIABLES
    cfg,          \* configuration passed to the session
    entries,      \* the resolved playlist: entries[i] is the URL id of item i
    cache,        \* files of the cache directory, oldest access time first
    pc,           \* position of interactive_play
    idx,          \* 0-based playlist index
    retry_count,  \* per-item retry counter
    player,       \* state of the player process handle of the session
    play_url,     \* target handed to play_stream
    fetch,        \* progress of the download_to_cache call in flight
    streak,       \* launches of the current item since it began or since the last user action
    started,      \* items for which a player was started, kept while scn >= 0
    fetched,      \* items for which download_to_cache returned a path, kept while scn >= 0
    scn,          \* stages of the end-to-end scenario observed so far (-1: departed from it)
    lastKey,      \* the last key the session read
    video_mode,   \* the video_mode argument of the session
    records,      \* the index of the last append_history call and the calls made for it
    endMsg,       \* number of times "End of playlist." was printed
    hist,         \* how the last append_history call of the session ended
    hindex,       \* logs/history_index.json: play count per key
    ledger,       \* logs/history.json: the list of records
    hop,          \* the last operation on the history files and what it stamped
    outer,        \* position of the function that encloses interactive_play
    lines,        \* the lines of the list file
    line,         \* 0-based position in the lines of the list file
    auto_mode,    \* the auto_mode argument of play_from_list_file
    orphans,      \* 1 while a player that was sent terminate() and never waited for may run
    quitSeen,     \* a q was read while an entry of a playlist line was playing
    returncode,   \* the exit code of the player that the last step saw exit
    peer,         \* the files another session on the same cache directory is writing
    readers,      \* reader threads of earlier prompts that are still blocked in input()
    swallowed,    \* the line an abandoned reader thread took in the last step
    ytdlp,        \* the yt-dlp processes of the pipelines started by play_stream
    ctl,          \* the player handed to pause/resume_cached_playback and the last call
    prune_in      \* the directory and the unlink failures of the last prune_cache call

\* the variables of interactive_play and of the cache
svars == <<cfg, entries, cache, pc, idx, retry_count, player, play_url, fetch,
           streak, started, fetched, scn, lastKey, video_mode, records, endMsg, hist,
           returncode>>

\* the history files
hvars == <<hindex, ledger, hop>>

\* what lies outside the session functions: a second session on the cache,
\* abandoned reader threads, pipeline processes, the pause/resume helpers
xvars == <<peer, readers, swallowed, ytdlp, ctl>>

\* the enclosing session function
ovars == <<outer, lines, line, auto_mode, orphans, quitSeen>>

vars == <<cfg, entries, cache, pc, idx, retry_count, player, play_url, fetch,
          streak, started, fetched, scn, lastKey, video_mode, records, endMsg,
          hist, hindex, ledger, hop, outer, lines, line, auto_mode, orphans,
          quitSeen, returncode, prune_in, peer, readers, swallowed, ytdlp, ctl>>

(* ---------------- cache helpers ---------------- *)
Range(s) == {s[i] : i \in 1..Len(s)}

Sha1(url) == <<"sha1", url>>

File(stem, ext, part) == [stem |-> stem, ext |-> ext, part |-> part]

\* "no path" (Optional[Path] None) and a remote URL used as a player target
NoPath == File(<<"none", 0>>, "", FALSE)

Remote(url) == File(<<"url", url>>, "", FALSE)

\* _url_to_filename: the hash of the URL with the fixed suffix ".webm"
UrlToFilename(url) == File(Sha1(url), "webm", FALSE)

\* get_cached_file_for_url: the fixed name, if it exists
GetCachedFileForUrl_Mut(url, files) == NoPath

GetCachedFileForUrl(url, files) ==
    IF UrlToFilename(url) \in Range(files) THEN UrlToFilename(url) ELSE NoPath

\* cache_dir.glob(stem + ".*")
Glob(stem, files) == {f \in Range(files) : f.stem = stem}

Remove(files, f) == SelectSeq(files, LAMBDA g : g # f)

\* the loop of prune_cache over the files sorted by access time;
\* locked is the set of files whose unlink raises
RECURSIVE PruneLoop(_, _, _)
PruneLoop_Mut(files, max_files, locked) ==
    IF Len(files) > max_files THEN SubSeq(files, 1, max_files) ELSE files

PruneLoop(files, max_files, locked) ==
    IF Len(files) > max_files
    THEN IF files[1] \in locked
         THEN files
         ELSE PruneLoop(Tail(files), max_files, locked)
    ELSE files

\* prune_cache(cfg): max_files = int(cfg.get("CacheMaxFiles", 50))
PruneCache_Mut(files, locked) ==
    IF Len(files) > cfg.CacheMaxFiles THEN SubSeq(files, 1, cfg.CacheMaxFiles) ELSE files

PruneCache(files, locked) == PruneLoop(files, cfg.CacheMaxFiles, locked)

(* ---------------- the downloader (yt-dlp) ---------------- *)
\* "let yt-dlp choose extension": the extension is the one of the format
\* yt-dlp selects for the URL under "bestaudio/best" (audio) or "best" (video)
FormatExt(url, video) ==
    IF video THEN (IF url = 2 THEN "webm" ELSE "mp4")
    ELSE (IF url = 1 THEN "m4a" ELSE "webm")

\* what one ydl.download([url]) call can do: finish and leave stem.ext,
\* or raise, possibly leaving the partial file stem.ext.part behind
DownloadOutcomes(url, video) ==
    [ok : {TRUE}, ext : {FormatExt(url, video)}, leavesPart : {FALSE}]
    \cup [ok : {FALSE}, ext : {FormatExt(url, video)}, leavesPart : BOOLEAN]

\* the cache directory after ydl.download([url]) with outcome o:
\* an existing stem.ext is kept as it is, a new file has the newest access time
AfterDownload(files, stem, o) ==
    LET whole == File(stem, o.ext, FALSE)
        part  == File(stem, o.ext, TRUE)
    IN  IF whole \in Range(files) THEN files
        ELSE IF o.ok THEN Append(Remove(files, part), whole)
        ELSE IF o.leavesPart /\ part \notin Range(files) THEN Append(files, part)
        ELSE files

\* delay + jitter of the backoff after the attempt-th failed attempt;
\* random.uniform(0, delay * 0.2) is drawn at its two ends
BackoffDelay_Mut(attempt) == BaseDelay * (2 ^ attempt)

BackoffDelay(attempt) == BaseDelay * (2 ^ (attempt - 1))

BackoffWaits(attempt) ==
    LET delay == BackoffDelay(attempt)
    IN  {delay + jitter : jitter \in {0, (delay * 2) \div 10}}

FetchIdle ==
    [result |-> "idle", tries |-> 0, attempt |-> 0, waits |-> <<>>,
     produced |-> FALSE, hadEntry |-> FALSE, hit |-> FALSE]

(* ---------------- the history files ---------------- *)
\* a file of logs/: its JSON content, or something json.load cannot read
FileOf(data) == [ok |-> TRUE, data |-> data]

HistoryKeys == {1, 2}

EmptyIndex == [k \in HistoryKeys |-> 0]

CorruptIndex == [ok |-> FALSE, data |-> EmptyIndex]

CorruptLedger == [ok |-> FALSE, data |-> <<>>]

\* _load_index: the content of the index file, {} when it cannot be read
LoadIndex(file, readOk) == IF readOk /\ file.ok THEN file.data ELSE EmptyIndex

\* load_history: the content of the ledger file, [] when it cannot be read
LoadHistory(file, readOk) == IF readOk /\ file.ok THEN file.data ELSE <<>>

\* open(path, "w") followed by json.dump: the file holds the new content,
\* or open raised and the file is as before, or the write broke off after
\* open had truncated the file
WriteOutcomes == {"ok", "denied", "torn"}

WriteFile(file, data, outcome, corrupt) ==
    IF outcome = "ok" THEN FileOf(data)
    ELSE IF outcome = "denied" THEN file
    ELSE corrupt

\* the records handed to append_history: 0 stands for an absent reference
HistoryEntries ==
    { [track_url |-> 1, playlist_url |-> 2],
      [track_url |-> 0, playlist_url |-> 2],
      [track_url |-> 2, playlist_url |-> 0] }

\* key = entry.get("track_url") or entry.get("playlist_url") or ""
HistoryKey_Mut(entry) ==
    IF entry.playlist_url # 0 THEN entry.playlist_url ELSE entry.track_url

HistoryKey(entry) ==
    IF entry.track_url # 0 THEN entry.track_url ELSE entry.playlist_url

\* the reads and writes of one call: whether each read succeeds, how each
\* write ends; at most one of the four goes wrong in a call
IoChoices ==
    { io \in [ir : BOOLEAN, iw : WriteOutcomes, lr : BOOLEAN, lw : WriteOutcomes] :
        Cardinality({f \in {"ir", "lr"} : ~io[f]} ) 
          + Cardinality({f \in {"iw", "lw"} : io[f] # "ok"}) <= 1 }

IoClean(io) == io.ir /\ io.lr /\ io.iw = "ok" /\ io.lw = "ok"

NoOp == [op |-> "none", key |-> 0, count |-> 0, clean |-> TRUE, calls |-> <<>>]

(* ---------------- session helpers ---------------- *)
Url == entries[idx + 1]

Inc(n, cap) == IF n < cap THEN n + 1 ELSE cap

\* observer of the end-to-end scenario: item 1 left because its fetch never
\* returned a path, item 2 left by the prompt timeout, item 3 quit while playing
ScnNext(event) ==
    IF scn = 0 /\ idx = 0 /\ event = "fetchfail" /\ 1 \notin fetched THEN 1
    ELSE IF scn = 1 /\ idx = 1 /\ event = "timeout" THEN 2
    ELSE IF scn = 2 /\ idx = 2 /\ event = "quit" THEN 3
    ELSE -1

\* the observer's step when the session leaves an item or ends
Observe(event) ==
    /\ scn' = ScnNext(event)
    /\ started' = IF ScnNext(event) = -1 THEN {} ELSE started
    /\ fetched' = IF ScnNext(event) = -1 THEN {} ELSE fetched

Note(set, item) == IF scn = -1 THEN {} ELSE set \cup {item}

\* idx += 1; break
LeaveItem_Mut(reason) ==
    /\ idx' = idx
    /\ Observe(reason)
    /\ streak' = 0
    /\ pc' = "Done"

LeaveItem(reason) ==
    /\ idx' = idx + 1
    /\ Observe(reason)
    /\ streak' = 0
    /\ pc' = "ItemBegin"

NoPrune == [files |-> <<>>, locked |-> {}, max_files |-> 0, raised |-> FALSE]

\* no pipeline was started: no yt-dlp process of the running player, none
\* left from an earlier play_stream call
NoPipeline == [cur |-> None, strays |-> 0]

\* no player was handed to the pause/resume helpers
NoCtl == [proc |-> None, stdin |-> FALSE, posix |-> FALSE, keys |-> 0,
          stopped |-> FALSE, op |-> None, wrote |-> FALSE, signal |-> None,
          result |-> FALSE]

\* try: append_history({...}) except Exception: pass -- the call returns
\* after its writes, returns with a write that failed and was logged, or
\* raises and the exception is dropped
HistoryOutcomes == {"ok", "unwritten", "raised"}

\* where interactive_play goes on after the try statement around
\* append_history: the inner loop, however the call ended
AfterHistory_Mut(outcome) == IF outcome = "ok" THEN "Starting" ELSE "Done"

AfterHistory(outcome) == "Starting"

HistoryOutcome ==
    /\ \E outcome \in HistoryOutcomes :
         /\ hist' = outcome
         /\ pc' = AfterHistory(outcome)
    /\ returncode' = NoExit
    /\ UNCHANGED <<hvars, ovars, prune_in, xvars>>

\* a step of interactive_play leaves the enclosing function where it is; the
\* files written by append_history are followed in HistorySpec
Quiet ==
    /\ hist' = None
    /\ returncode' = NoExit
    /\ UNCHANGED <<hvars, ovars, prune_in, xvars>>

\* exit_code = player.wait(): the step has seen the player exit with this code
Waited(exit_code) ==
    /\ returncode' = exit_code
    /\ hist' = None
    /\ UNCHANGED <<hvars, ovars, prune_in, xvars>>

(* ---------------- initial states ---------------- *)
Configs ==
    [PlaybackMethod : {"cache"}, ForceCacheRefresh : BOOLEAN,
     CacheMaxFiles : 1..MaxCacheFiles,
     CacheRetryCount : {0, DefaultCacheRetryCount}]
    \cup
    [PlaybackMethod : {"pipe"}, ForceCacheRefresh : {FALSE},
     CacheMaxFiles : {MaxCacheFiles},
     CacheRetryCount : {DefaultCacheRetryCount}]

\* cache directories left behind by earlier runs
InitCaches ==
    { <<>>,
      <<File(Sha1(1), "m4a", FALSE), File(Sha1(2), "webm", FALSE)>> }

\* the locals of a session that has not started, the files of logs/
InitLocals ==
    /\ entries = [i \in 1..MaxItems |-> i]
    /\ idx = 0
    /\ retry_count = 0
    /\ player = None
    /\ play_url = NoPath
    /\ fetch = FetchIdle
    /\ streak = 0
    /\ started = {}
    /\ fetched = {}
    /\ scn = 0
    /\ lastKey = None
    /\ records = [idx |-> -1, count |-> 0]
    /\ endMsg = 0
    /\ hist = None
    /\ hindex = FileOf(EmptyIndex)
    /\ ledger = FileOf(<<>>)
    /\ hop = NoOp
    /\ orphans = 0
    /\ quitSeen = FALSE
    /\ returncode = NoExit
    /\ prune_in = NoPrune
    /\ peer = {}
    /\ readers = 0
    /\ swallowed = None
    /\ ytdlp = NoPipeline

\* interactive_play called on its own
InitRest ==
    /\ InitLocals
    /\ ctl = NoCtl
    /\ pc = "ItemBegin"
    /\ outer = "off"
    /\ lines = <<>>
    /\ line = 0
    /\ auto_mode = FALSE

Init ==
    /\ cfg \in Configs
    /\ video_mode \in BOOLEAN
    /\ cache \in (IF cfg.PlaybackMethod = "cache" THEN InitCaches ELSE {<<>>})
    /\ InitRest

(* ---------------- interactive_play: the two loop heads ---------------- *)
\* while 0 <= idx < len(entries): retry_count = 0; append_history(...)
OuterLoopEnter ==
    /\ pc = "ItemBegin"
    /\ idx < Len(entries)
    /\ retry_count' = 0
    /\ records' = [idx |-> idx,
                   count |-> IF records.idx = idx THEN Inc(records.count, StreakCap) ELSE 1]
    /\ fetch' = FetchIdle
    /\ lastKey' = None
    /\ HistoryOutcome
    /\ UNCHANGED <<cfg, entries, cache, idx, player, play_url, streak, started,
                   fetched, scn, video_mode, endMsg>>

\* the outer loop ends: print("End of playlist.")
OuterLoopExit ==
    /\ pc = "ItemBegin"
    /\ ~(idx < Len(entries))
    /\ endMsg' = endMsg + 1
    /\ pc' = "Done"
    /\ lastKey' = None
    /\ Quiet
    /\ UNCHANGED <<cfg, entries, cache, idx, retry_count, player, play_url, fetch,
                   streak, started, fetched, scn, video_mode, records>>

\* while retry_count < 3: false, control falls back to the outer loop head
InnerLoopExit ==
    /\ pc = "Starting"
    /\ ~(retry_count < MaxTries)
    /\ pc' = "ItemBegin"
    /\ lastKey' = None
    /\ Quiet
    /\ UNCHANGED <<cfg, entries, cache, idx, retry_count, player, play_url, fetch,
                   streak, started, fetched, scn, video_mode, records, endMsg>>

\* PlaybackMethod is not "cache": play_url = webpage_url
StartPipe ==
    /\ pc = "Starting"
    /\ retry_count < MaxTries
    /\ cfg.PlaybackMethod # "cache"
    /\ play_url' = Remote(Url)
    /\ pc' = "Launch"
    /\ lastKey' = None
    /\ Quiet
    /\ UNCHANGED <<cfg, entries, cache, idx, retry_count, player, fetch,
                   streak, started, fetched, scn, video_mode, records, endMsg>>

(* ---------------- download_to_cache ---------------- *)
\* the files whose unlink raises during one call: none or one of them
LockChoices(files) == {{}} \cup {{f} : f \in Range(files)}

\* entries of the cache for a URL: the complete files of its stem
EntriesFor(url, files) == {f \in Range(files) : f.stem = Sha1(url) /\ ~f.part}

\* download_to_cache up to the retry loop: the cache hit, the removal of
\* the existing file under ForceCacheRefresh
DownloadToCacheBegin(locked) ==
    LET existing == GetCachedFileForUrl(Url, cache)
        force    == cfg.ForceCacheRefresh
    IN  IF existing # NoPath /\ ~force
        THEN /\ fetch' = [FetchIdle EXCEPT !.result = "path", !.hit = TRUE,
                                            !.hadEntry = TRUE]
             /\ play_url' = existing
             /\ fetched' = Note(fetched, idx + 1)
             /\ pc' = "Launch"
             /\ cache' = cache
        ELSE /\ cache' = IF existing # NoPath /\ force /\ existing \notin locked
                         THEN Remove(cache, existing)
                         ELSE cache
             /\ fetch' = [FetchIdle EXCEPT !.result = "pending",
                                            !.hadEntry = (EntriesFor(Url, cache) # {})]
             /\ pc' = "Fetching"
             /\ UNCHANGED <<play_url, fetched>>

\* PlaybackMethod is "cache": filepath = download_to_cache(webpage_url, ...)
StartCache ==
    /\ pc = "Starting"
    /\ retry_count < MaxTries
    /\ cfg.PlaybackMethod = "cache"
    /\ \E locked \in LockChoices(cache) : DownloadToCacheBegin(locked)
    /\ lastKey' = None
    /\ Quiet
    /\ UNCHANGED <<cfg, entries, idx, retry_count, player, streak, started, scn,
                   video_mode, records, endMsg>>

\* if not filepath: print("  Failed to download to cache."); idx += 1; break
OnFetchFailed_Mut ==
    /\ Observe("fetchfail")
    /\ pc' = "Launch"
    /\ UNCHANGED <<idx, streak>>

OnFetchFailed == LeaveItem("fetchfail")

\* the end of a failed attempt: attempt += 1, then either the loop ends
\* (return None, handled by the session) or the backoff sleep
AttemptFailed(files, produced) ==
    LET attempt == fetch.attempt + 1
    IN  /\ cache' = files
        /\ UNCHANGED <<play_url, retry_count, player>>
        /\ IF attempt > cfg.CacheRetryCount
           THEN /\ fetch' = [fetch EXCEPT !.result = "none", !.attempt = attempt,
                                          !.tries = @ + 1, !.produced = produced]
                /\ OnFetchFailed
           ELSE /\ \E wait \in BackoffWaits(attempt) :
                     fetch' = [fetch EXCEPT !.attempt = attempt, !.tries = @ + 1,
                                            !.produced = produced,
                                            !.waits = Append(@, wait)]
                /\ UNCHANGED <<pc, idx, scn, started, fetched, streak>>

\* a successful ydl.download: glob, newest match, prune_cache, exists check.
\* The modification time of a downloaded file is set by yt-dlp from the
\* server, so any file of the stem can be the newest match.
AttemptSucceeded(files, locked) ==
    \E real_path \in Glob(Sha1(Url), files) :
        LET pruned == PruneCache(files, locked)
        IN  IF real_path \in Range(pruned)
            THEN /\ cache' = pruned
                 /\ fetch' = [fetch EXCEPT !.result = "path", !.tries = @ + 1,
                                           !.produced = TRUE]
                 /\ play_url' = real_path
                 /\ fetched' = Note(fetched, idx + 1)
                 /\ pc' = "Launch"
                 /\ UNCHANGED <<idx, scn, streak, retry_count, player, started>>
            ELSE AttemptFailed(pruned, TRUE)

\* one iteration of the retry loop of download_to_cache
DownloadAttempt ==
    /\ pc = "Fetching"
    /\ \E o \in DownloadOutcomes(Url, video_mode) :
         LET files == AfterDownload(cache, Sha1(Url), o)
         IN  IF o.ok
             THEN \E locked \in LockChoices(files) : AttemptSucceeded(files, locked)
             ELSE AttemptFailed(files, fetch.produced)
    /\ lastKey' = None
    /\ Quiet
    /\ UNCHANGED <<cfg, entries, video_mode, records, endMsg>>

\* one iteration of the retry loop in which ydl.download succeeds and
\* prune_cache(cfg) raises before its loop: p.stat() in the sort key fails
\* for a dangling link or for a file that was renamed after iterdir().
\* The call is inside the try block: except Exception, then attempt += 1
DownloadAttemptPruneRaises ==
    /\ pc = "Fetching"
    /\ \E o \in DownloadOutcomes(Url, video_mode) :
         LET files == AfterDownload(cache, Sha1(Url), o)
         IN  /\ o.ok
             /\ Glob(Sha1(Url), files) # {}
             /\ prune_in' = [files |-> files, locked |-> {},
                             max_files |-> cfg.CacheMaxFiles, raised |-> TRUE]
             /\ AttemptFailed(files, TRUE)
    /\ lastKey' = None
    /\ hist' = None
    /\ returncode' = NoExit
    /\ UNCHANGED <<cfg, entries, video_mode, records, endMsg, hvars, ovars, xvars>>

(* ---------------- play_stream and the poll loop ---------------- *)
ExitCodes == {0, 1}

\* play_stream: a process handle, or None when the player cannot be started
PlayStream(target, ok) == IF ok THEN "live" ELSE None

\* player = play_stream(play_url, ...); if player is None: idx += 1; break
Launch ==
    /\ pc = "Launch"
    /\ \E ok \in BOOLEAN :
         LET proc == PlayStream(play_url, ok)
         IN  IF proc = None
             THEN /\ LeaveItem("launchfail")
                  /\ UNCHANGED player
             ELSE /\ player' = proc
                  /\ started' = Note(started, idx + 1)
                  /\ streak' = Inc(streak, StreakCap)
                  /\ pc' = "Playing"
                  /\ UNCHANGED <<idx, scn, fetched>>
    /\ fetch' = FetchIdle
    /\ lastKey' = None
    /\ Quiet
    /\ UNCHANGED <<cfg, entries, cache, retry_count, play_url,
                   video_mode, records, endMsg>>

\* play_stream in pipe mode: Popen of yt-dlp, then Popen of ffplay reading
\* its stdout; only ffplay_proc is returned, and None when either Popen
\* raises. A yt-dlp still running when the next one is started is a stray
LaunchPipeline ==
    /\ pc = "Launch"
    /\ \E ok \in BOOLEAN, dl \in BOOLEAN :
         LET proc   == PlayStream(play_url, ok)
             strays == IF ytdlp.cur = "live" THEN 1 ELSE ytdlp.strays
         IN  /\ (ok => dl)
             /\ ytdlp' = [cur |-> IF dl THEN "live" ELSE None, strays |-> strays]
             /\ IF proc = None
                THEN /\ LeaveItem("launchfail")
                     /\ UNCHANGED player
                ELSE /\ player' = proc
                     /\ started' = Note(started, idx + 1)
                     /\ streak' = Inc(streak, StreakCap)
                     /\ pc' = "Playing"
                     /\ UNCHANGED <<idx, scn, fetched>>
    /\ fetch' = FetchIdle
    /\ lastKey' = None
    /\ hist' = None
    /\ returncode' = NoExit
    /\ UNCHANGED <<cfg, entries, cache, retry_count, play_url,
                   video_mode, records, endMsg>>
    /\ UNCHANGED <<hvars, ovars, prune_in, peer, readers, swallowed, ctl>>

\* a yt-dlp process exits by itself: the stream is written out, or it failed
DownloaderExits ==
    /\ \E which \in {"cur", "stray"} :
         IF which = "cur"
         THEN /\ ytdlp.cur = "live"
              /\ ytdlp' = [ytdlp EXCEPT !.cur = "exited"]
         ELSE /\ ytdlp.strays > 0
              /\ ytdlp' = [ytdlp EXCEPT !.strays = 0]
    /\ lastKey' = None
    /\ hist' = None
    /\ returncode' = NoExit
    /\ UNCHANGED <<cfg, entries, cache, pc, idx, retry_count, player, play_url, fetch,
                   streak, started, fetched, scn, video_mode, records, endMsg>>
    /\ UNCHANGED <<hvars, ovars, prune_in, peer, readers, swallowed, ctl>>

\* the code after the poll loop: exit_code = player.wait(), then the
\* abnormal exit, replay and next branches, else the natural-end prompt
AfterPlayerWait_Mut(exit_code, user_action) ==
    IF exit_code # 0
    THEN /\ retry_count' = retry_count + 1
         /\ pc' = "Starting"
         /\ UNCHANGED <<idx, scn, started, fetched, streak>>
    ELSE IF user_action = "replay"
    THEN /\ retry_count' = 0
         /\ streak' = 0
         /\ pc' = "Starting"
         /\ UNCHANGED <<idx, scn, started, fetched>>
    ELSE IF user_action = "next"
    THEN /\ LeaveItem("next")
         /\ UNCHANGED retry_count
    ELSE /\ pc' = "Prompt"
         /\ UNCHANGED <<idx, scn, started, fetched, streak, retry_count>>

AfterPlayerWait(exit_code, user_action) ==
    IF exit_code # 0 /\ user_action = None
    THEN /\ retry_count' = retry_count + 1
         /\ pc' = "Starting"
         /\ UNCHANGED <<idx, scn, started, fetched, streak>>
    ELSE IF user_action = "replay"
    THEN /\ retry_count' = 0
         /\ streak' = 0
         /\ pc' = "Starting"
         /\ UNCHANGED <<idx, scn, started, fetched>>
    ELSE IF user_action = "next"
    THEN /\ LeaveItem("next")
         /\ UNCHANGED retry_count
    ELSE /\ pc' = "Prompt"
         /\ UNCHANGED <<idx, scn, started, fetched, streak, retry_count>>

\* player.poll() is not None: the player has exited by itself
PlayerExits ==
    /\ pc = "Playing"
    /\ \E exit_code \in ExitCodes :
         /\ AfterPlayerWait(exit_code, None)
         /\ Waited(exit_code)
    /\ player' = "reaped"
    /\ lastKey' = None
    /\ UNCHANGED <<cfg, entries, cache, play_url, fetch,
                   video_mode, records, endMsg>>

\* ch == "n": player.terminate(); user_action = "next"; break
KeyNext_Mut ==
    /\ pc = "Playing"
    /\ lastKey' = "n"
    /\ player' = "reaped"
    /\ \E exit_code \in ExitCodes : Waited(exit_code)
    /\ idx' = IF idx > 0 THEN idx - 1 ELSE idx + 1
    /\ Observe("next")
    /\ streak' = 0
    /\ pc' = "ItemBegin"
    /\ UNCHANGED retry_count
    /\ UNCHANGED <<cfg, entries, cache, play_url, fetch,
                   video_mode, records, endMsg>>

KeyNext ==
    /\ pc = "Playing"
    /\ lastKey' = "n"
    /\ player' = "reaped"
    /\ \E exit_code \in ExitCodes :
         /\ AfterPlayerWait(exit_code, "next")
         /\ Waited(exit_code)
    /\ UNCHANGED <<cfg, entries, cache, play_url, fetch,
                   video_mode, records, endMsg>>

\* ch == "r": player.terminate(); user_action = "replay"; break
KeyReplay_Mut ==
    /\ pc = "Playing"
    /\ lastKey' = "r"
    /\ player' = "reaped"
    /\ \E exit_code \in ExitCodes : Waited(exit_code)
    /\ pc' = "Starting"
    /\ UNCHANGED <<retry_count, streak, idx, scn, started, fetched>>
    /\ UNCHANGED <<cfg, entries, cache, play_url, fetch,
                   video_mode, records, endMsg>>

KeyReplay ==
    /\ pc = "Playing"
    /\ lastKey' = "r"
    /\ player' = "reaped"
    /\ \E exit_code \in ExitCodes :
         /\ AfterPlayerWait(exit_code, "replay")
         /\ Waited(exit_code)
    /\ UNCHANGED <<cfg, entries, cache, play_url, fetch,
                   video_mode, records, endMsg>>

\* ch == "q": player.terminate(); return
OnKeyQuit_Mut ==
    /\ player' = "reaped"
    /\ LeaveItem("next")
    /\ UNCHANGED retry_count

OnKeyQuit ==
    /\ player' = "terminated"
    /\ Observe("quit")
    /\ pc' = "Done"
    /\ UNCHANGED <<idx, retry_count, streak>>

KeyQuit ==
    /\ pc = "Playing"
    /\ lastKey' = "q"
    /\ OnKeyQuit
    /\ Quiet
    /\ UNCHANGED <<cfg, entries, cache, play_url, fetch,
                   video_mode, records, endMsg>>

\* any other key is read and ignored, the poll loop goes on
KeyOther ==
    /\ pc = "Playing"
    /\ lastKey' = "x"
    /\ Quiet
    /\ UNCHANGED <<cfg, entries, cache, pc, idx, retry_count, player, play_url,
                   fetch, streak, started, fetched, scn, video_mode, records, endMsg>>

\* except KeyboardInterrupt: player.terminate(); return
KeyboardInterrupt ==
    /\ pc = "Playing"
    /\ lastKey' = "^C"
    /\ player' = "terminated"
    /\ Observe("interrupt")
    /\ pc' = "Done"
    /\ Quiet
    /\ UNCHANGED <<cfg, entries, cache, idx, retry_count, play_url, fetch, streak,
                   video_mode, records, endMsg>>

(* ---------------- the natural-end prompt ---------------- *)
\* t.join(3); ch = user_input["ch"]: None after the timeout, else the line read
PromptAnswer_Mut(ch) ==
    IF ch = "r"
    THEN /\ pc' = "Starting"
         /\ UNCHANGED <<idx, scn, started, fetched, streak, retry_count>>
    ELSE /\ LeaveItem("next")
         /\ UNCHANGED retry_count

PromptAnswer(ch) ==
    IF ch = None
    THEN /\ LeaveItem("timeout")
         /\ UNCHANGED retry_count
    ELSE IF ch = "n"
    THEN /\ LeaveItem("next")
         /\ UNCHANGED retry_count
    ELSE IF ch = "r"
    THEN /\ retry_count' = 0
         /\ streak' = 0
         /\ pc' = "Starting"
         /\ UNCHANGED <<idx, scn, started, fetched>>
    ELSE IF ch = "q"
    THEN /\ Observe("promptquit")
         /\ pc' = "Done"
         /\ UNCHANGED <<idx, retry_count, streak>>
    ELSE /\ LeaveItem("invalid")
         /\ UNCHANGED retry_count

PromptTimeout ==
    /\ pc = "Prompt"
    /\ PromptAnswer(None)
    /\ lastKey' = None
    /\ Quiet
    /\ UNCHANGED <<cfg, entries, cache, player, play_url, fetch,
                   video_mode, records, endMsg>>

PromptInput ==
    /\ pc = "Prompt"
    /\ \E ch \in {"n", "r", "q", "x"} :
         /\ PromptAnswer(ch)
         /\ lastKey' = ch
    /\ Quiet
    /\ UNCHANGED <<cfg, entries, cache, player, play_url, fetch,
                   video_mode, records, endMsg>>

\* t.join(3) returns with the thread still alive: ch is None, and the daemon
\* thread stays blocked in input() on sys.stdin
PromptTimeoutAbandons ==
    /\ pc = "Prompt"
    /\ PromptAnswer(None)
    /\ readers' = readers + 1
    /\ lastKey' = None
    /\ hist' = None
    /\ returncode' = NoExit
    /\ UNCHANGED <<cfg, entries, cache, player, play_url, fetch,
                   video_mode, records, endMsg>>
    /\ UNCHANGED <<hvars, ovars, prune_in, peer, swallowed, ytdlp, ctl>>

\* a line typed while a later item plays or while a later prompt waits is
\* returned by the input() call of an abandoned thread: it is stored in the
\* user_input dict of the earlier prompt, which nothing reads any more.
\* The poll of the session and the thread of the later prompt read the same
\* sys.stdin, so either side can get the line
StaleReaderTakesLine ==
    /\ pc \in {"Playing", "Prompt"}
    /\ readers > 0
    /\ \E ch \in {"n", "r", "q"} : swallowed' = ch
    /\ readers' = readers - 1
    /\ lastKey' = None
    /\ hist' = None
    /\ returncode' = NoExit
    /\ UNCHANGED <<cfg, entries, cache, pc, idx, retry_count, player, play_url, fetch,
                   streak, started, fetched, scn, video_mode, records, endMsg>>
    /\ UNCHANGED <<hvars, ovars, prune_in, peer, ytdlp, ctl>>

(* ---------------- append_history and the clear command ---------------- *)
\* append_history(entry) with the given outcomes of its reads and writes
AppendHistory(entry, io) ==
    LET idx_  == LoadIndex(hindex, io.ir)
        key   == HistoryKey(entry)
        count == idx_[key] + 1
        h     == LoadHistory(ledger, io.lr)
        rec   == [track_url |-> entry.track_url, playlist_url |-> entry.playlist_url,
                  play_count |-> count]
        clean == hop.clean /\ IoClean(io)
    IN  /\ count <= MaxCount
        /\ Len(h) < MaxLedger
        /\ hindex' = WriteFile(hindex, [idx_ EXCEPT ![key] = count], io.iw, CorruptIndex)
        /\ ledger' = WriteFile(ledger, Append(h, rec), io.lw, CorruptLedger)
        /\ hop' = [op |-> "append", key |-> key, count |-> count, clean |-> clean,
                   calls |-> IF clean THEN Append(hop.calls, entry) ELSE <<>>]

AppendHistoryCall ==
    /\ \E entry \in HistoryEntries, io \in IoChoices : AppendHistory(entry, io)
    /\ UNCHANGED <<svars, ovars, prune_in, xvars>>

\* show_history_paged, cmd == "clear" answered with YES: the ledger is
\* rewritten as [], then _save_index({}) whose failure is only logged
ClearConfirmed(lw, iw) ==
    IF lw = "ok"
    THEN /\ ledger' = FileOf(<<>>)
         /\ hindex' = WriteFile(hindex, EmptyIndex, iw, CorruptIndex)
         /\ hop' = [NoOp EXCEPT !.op = "clear", !.clean = (iw = "ok")]
    ELSE /\ ledger' = WriteFile(ledger, <<>>, lw, CorruptLedger)
         /\ hindex' = hindex
         /\ hop' = [NoOp EXCEPT !.op = "clearfail",
                                !.clean = (lw = "denied" /\ hop.clean),
                                !.calls = IF lw = "denied" /\ hop.clean
                                          THEN hop.calls ELSE <<>>]

\* the command loop is entered only when load_history() returned records
ClearHistory ==
    /\ LoadHistory(ledger, TRUE) # <<>>
    /\ \E lw \in WriteOutcomes, iw \in WriteOutcomes : ClearConfirmed(lw, iw)
    /\ UNCHANGED <<svars, ovars, prune_in, xvars>>

(* ---------------- prune_cache on its own ---------------- *)
\* the files a cache directory can hold: one per URL, MaxCacheFiles + 2 URLs
PoolFiles == {File(Sha1(u), FormatExt(u, FALSE), FALSE) : u \in 1..(MaxCacheFiles + 2)}

\* the directories over these files, each listed by ascending access time
PruneDirs ==
    { d \in UNION {[1..n -> PoolFiles] : n \in 0..Cardinality(PoolFiles)} :
        \A i, j \in DOMAIN d : i # j => d[i] # d[j] }

PruneInit ==
    /\ cfg \in {c \in Configs : c.PlaybackMethod = "cache" /\ ~c.ForceCacheRefresh
                                 /\ c.CacheRetryCount = 0}
    /\ video_mode = FALSE
    /\ cache \in PruneDirs
    /\ InitRest

\* prune_cache(cfg)
PruneCacheCall ==
    /\ \E locked \in LockChoices(cache) :
         /\ prune_in' = [files |-> cache, locked |-> locked,
                         max_files |-> cfg.CacheMaxFiles, raised |-> FALSE]
         /\ cache' = PruneCache(cache, locked)
    /\ UNCHANGED <<cfg, entries, pc, idx, retry_count, player, play_url, fetch, streak,
                   started, fetched, scn, lastKey, video_mode, records, endMsg, hist,
                   returncode, hvars, ovars, xvars>>

\* a file of the directory is read: it gets the newest access time
FileAccessed ==
    /\ \E f \in Range(cache) : cache' = Append(Remove(cache, f), f)
    /\ cache' # cache
    /\ UNCHANGED <<cfg, entries, pc, idx, retry_count, player, play_url, fetch, streak,
                   started, fetched, scn, lastKey, video_mode, records, endMsg, hist,
                   returncode, hvars, ovars, prune_in, xvars>>

PruneNext ==
    \/ PruneCacheCall
    \/ FileAccessed

PruneSpec == PruneInit /\ [][PruneNext]_vars

(* ------- play_from_list_file and the single-URL branch of handle_input ------- *)
\* a list-file session has lines; the single-URL session of handle_input has none
IsList == lines # <<>>

LineKinds ==
    { [kind |-> "playlist", url |-> 0],
      [kind |-> "single", url |-> 1],
      [kind |-> "text", url |-> 0] }

\* the list files: MaxLines lines, a line that is no URL only as the first
ListFiles ==
    {f \in [1..MaxLines -> LineKinds] : \A i \in 2..MaxLines : f[i].kind # "text"}

\* the URL the enclosing function is at
OuterUrl == IF IsList THEN lines[line + 1].url ELSE 1

\* what no step of the enclosing function changes
ofixed == <<cfg, entries, video_mode, lines, auto_mode, hvars, prune_in, xvars>>

\* the locals of interactive_play and their observers
ilocals == <<pc, idx, retry_count, streak, started, fetched, scn, records, endMsg>>

\* continue: the for loop takes the next line
AdvanceLine ==
    /\ line' = line + 1
    /\ outer' = "Begin"

\* the item is given up: continue in play_from_list_file, return in handle_input
OuterLeave ==
    IF IsList THEN AdvanceLine
    ELSE /\ outer' = "Done"
         /\ UNCHANGED line

\* the for loop of play_from_list_file is exhausted
ListEnd ==
    /\ outer = "Begin" /\ IsList
    /\ ~(line < Len(lines))
    /\ outer' = "Done"
    /\ hist' = None /\ returncode' = NoExit /\ lastKey' = None
    /\ UNCHANGED <<ofixed, ilocals, cache, player, play_url, fetch, line, orphans,
                   quitSeen>>

\* a line that is no URL, or a playlist URL that yields no entries
ListSkipLine ==
    /\ outer = "Begin" /\ IsList
    /\ line < Len(lines)
    /\ lines[line + 1].kind \in {"text", "playlist"}
    /\ AdvanceLine
    /\ hist' = None /\ returncode' = NoExit /\ lastKey' = None
    /\ UNCHANGED <<ofixed, ilocals, cache, player, play_url, fetch, orphans, quitSeen>>

\* interactive_play(pl_entries, cfg, playlist_url=raw, video_mode=video_mode)
ListEnterPlaylist ==
    /\ outer = "Begin" /\ IsList
    /\ line < Len(lines)
    /\ lines[line + 1].kind = "playlist"
    /\ outer' = "Inner"
    /\ pc' = "ItemBegin"
    /\ idx' = 0
    /\ scn' = -1
    /\ hist' = None /\ returncode' = NoExit /\ lastKey' = None
    /\ UNCHANGED <<ofixed, retry_count, streak, started, fetched, records, endMsg,
                   cache, player, play_url, fetch, line, orphans, quitSeen>>

\* interactive_play has returned: continue with the next line of the file.
\* A player that was sent terminate() by q or Ctrl-C is left behind.
InnerReturns ==
    /\ outer = "Inner"
    /\ pc = "Done"
    /\ pc' = "Idle"
    /\ AdvanceLine
    /\ orphans' = IF player = "terminated" THEN 1 ELSE orphans
    /\ quitSeen' = (quitSeen \/ (lastKey = "q" /\ player = "terminated"))
    /\ player' = None
    /\ play_url' = NoPath
    /\ fetch' = FetchIdle
    /\ idx' = 0 /\ retry_count' = 0 /\ streak' = 0
    /\ started' = {} /\ fetched' = {} /\ scn' = -1
    /\ records' = [idx |-> -1, count |-> 0]
    /\ endMsg' = 0
    /\ hist' = None /\ returncode' = NoExit /\ lastKey' = None
    /\ UNCHANGED <<ofixed, cache>>

\* a single-URL line, or the single-URL branch of handle_input:
\* try: append_history({...}) except Exception: pass
OuterItemBegin ==
    /\ outer = "Begin"
    /\ IsList => (line < Len(lines) /\ lines[line + 1].kind = "single")
    /\ hist' \in HistoryOutcomes /\ returncode' = NoExit
    /\ outer' = "Start"
    /\ lastKey' = None
    /\ UNCHANGED <<ofixed, ilocals, cache, player, play_url, fetch, line, orphans,
                   quitSeen>>

\* play_target = raw
OuterStartPipe ==
    /\ outer = "Start"
    /\ cfg.PlaybackMethod # "cache"
    /\ play_url' = Remote(OuterUrl)
    /\ outer' = "Launch"
    /\ hist' = None /\ returncode' = NoExit /\ lastKey' = None
    /\ UNCHANGED <<ofixed, ilocals, cache, player, fetch, line, orphans, quitSeen>>

\* download_to_cache(raw, cfg, video_mode) up to its retry loop
OuterDownloadBegin(locked) ==
    LET existing == GetCachedFileForUrl(OuterUrl, cache)
        force    == cfg.ForceCacheRefresh
    IN  IF existing # NoPath /\ ~force
        THEN /\ fetch' = [FetchIdle EXCEPT !.result = "path", !.hit = TRUE,
                                            !.hadEntry = TRUE]
             /\ play_url' = existing
             /\ outer' = "Launch"
             /\ cache' = cache
        ELSE /\ cache' = IF existing # NoPath /\ force /\ existing \notin locked
                         THEN Remove(cache, existing)
                         ELSE cache
             /\ fetch' = [FetchIdle EXCEPT !.result = "pending",
                                            !.hadEntry = (EntriesFor(OuterUrl, cache) # {})]
             /\ outer' = "Fetching"
             /\ UNCHANGED play_url

\* filepath = download_to_cache(raw, cfg, video_mode=video_mode)
OuterStartCache ==
    /\ outer = "Start"
    /\ cfg.PlaybackMethod = "cache"
    /\ \E locked \in LockChoices(cache) : OuterDownloadBegin(locked)
    /\ hist' = None /\ returncode' = NoExit /\ lastKey' = None
    /\ UNCHANGED <<ofixed, ilocals, player, line, orphans, quitSeen>>

\* if not filepath: print("  Failed to download to cache."), then continue
\* (play_from_list_file) or return (handle_input)
OnOuterFetchFailed_Mut ==
    /\ outer' = "Launch"
    /\ UNCHANGED line

OnOuterFetchFailed == OuterLeave

OuterAttemptFailed(files, produced) ==
    LET attempt == fetch.attempt + 1
    IN  /\ cache' = files
        /\ UNCHANGED play_url
        /\ IF attempt > cfg.CacheRetryCount
           THEN /\ fetch' = [fetch EXCEPT !.result = "none", !.attempt = attempt,
                                          !.tries = @ + 1, !.produced = produced]
                /\ OnOuterFetchFailed
           ELSE /\ \E wait \in BackoffWaits(attempt) :
                     fetch' = [fetch EXCEPT !.attempt = attempt, !.tries = @ + 1,
                                            !.produced = produced,
                                            !.waits = Append(@, wait)]
                /\ UNCHANGED <<outer, line>>

OuterAttemptSucceeded(files, locked) ==
    \E real_path \in Glob(Sha1(OuterUrl), files) :
        LET pruned == PruneCache(files, locked)
        IN  IF real_path \in Range(pruned)
            THEN /\ cache' = pruned
                 /\ fetch' = [fetch EXCEPT !.result = "path", !.tries = @ + 1,
                                           !.produced = TRUE]
                 /\ play_url' = real_path
                 /\ outer' = "Launch"
                 /\ UNCHANGED line
            ELSE OuterAttemptFailed(pruned, TRUE)

\* one iteration of the retry loop of download_to_cache
OuterDownloadAttempt ==
    /\ outer = "Fetching"
    /\ \E o \in DownloadOutcomes(OuterUrl, video_mode) :
         LET files == AfterDownload(cache, Sha1(OuterUrl), o)
         IN  IF o.ok
             THEN \E locked \in LockChoices(files) : OuterAttemptSucceeded(files, locked)
             ELSE OuterAttemptFailed(files, fetch.produced)
    /\ hist' = None /\ returncode' = NoExit /\ lastKey' = None
    /\ UNCHANGED <<ofixed, ilocals, player, orphans, quitSeen>>

\* player = play_stream(play_target, ...); if player is None: continue / return
OuterLaunch ==
    /\ outer = "Launch"
    /\ \E ok \in BOOLEAN :
         LET proc == PlayStream(play_url, ok)
         IN  IF proc = None
             THEN /\ OuterLeave
                  /\ UNCHANGED player
             ELSE /\ player' = proc
                  /\ outer' = "Playing"
                  /\ UNCHANGED line
    /\ fetch' = FetchIdle
    /\ hist' = None /\ returncode' = NoExit /\ lastKey' = None
    /\ UNCHANGED <<ofixed, ilocals, cache, play_url, orphans, quitSeen>>

\* player.poll() is not None.  play_from_list_file goes to the next line
\* whatever the exit code is; handle_input prompts with a blocking input()
OuterPlayerExits ==
    /\ outer = "Playing"
    /\ IF IsList
       THEN /\ AdvanceLine
            /\ player' = None
       ELSE /\ outer' = "Prompt"
            /\ player' = "reaped"
            /\ UNCHANGED line
    /\ returncode' \in ExitCodes
    /\ hist' = None /\ lastKey' = None
    /\ UNCHANGED <<ofixed, ilocals, cache, play_url, fetch, orphans, quitSeen>>

\* the key checks run unless play_from_list_file was called with auto_mode
KeysChecked == outer = "Playing" /\ ~(IsList /\ auto_mode)

\* ch == "n" (play_from_list_file only): player.terminate(); continue
OuterKeyNext ==
    /\ KeysChecked /\ IsList
    /\ lastKey' = "n"
    /\ orphans' = 1
    /\ player' = None
    /\ AdvanceLine
    /\ hist' = None /\ returncode' = NoExit
    /\ UNCHANGED <<ofixed, ilocals, cache, play_url, fetch, quitSeen>>

\* ch == "r": player.terminate(); then continue, which is the next line in
\* play_from_list_file and the same URL again in handle_input
OuterKeyReplay ==
    /\ KeysChecked
    /\ lastKey' = "r"
    /\ orphans' = 1
    /\ player' = None
    /\ IF IsList THEN AdvanceLine
       ELSE /\ outer' = "Start"
            /\ UNCHANGED line
    /\ hist' = None /\ returncode' = NoExit
    /\ UNCHANGED <<ofixed, ilocals, cache, play_url, fetch, quitSeen>>

\* ch == "q": player.terminate(); return
OuterKeyQuit ==
    /\ KeysChecked
    /\ lastKey' = "q"
    /\ player' = "terminated"
    /\ outer' = "Done"
    /\ hist' = None /\ returncode' = NoExit
    /\ UNCHANGED <<ofixed, ilocals, cache, play_url, fetch, line, orphans, quitSeen>>

\* any other key is read and ignored
OuterKeyOther ==
    /\ KeysChecked
    /\ lastKey' = "x"
    /\ hist' = None /\ returncode' = NoExit
    /\ UNCHANGED <<ofixed, ilocals, cache, player, play_url, fetch, outer, line,
                   orphans, quitSeen>>

\* except KeyboardInterrupt: player.terminate(); return
OuterInterrupt ==
    /\ outer = "Playing"
    /\ lastKey' = "^C"
    /\ player' = "terminated"
    /\ outer' = "Done"
    /\ hist' = None /\ returncode' = NoExit
    /\ UNCHANGED <<ofixed, ilocals, cache, play_url, fetch, line, orphans, quitSeen>>

\* handle_input: while True: ch = input().strip().lower()
SinglePromptInput ==
    /\ outer = "Prompt"
    /\ \E ch \in {"r", "q", "x"} :
         /\ lastKey' = ch
         /\ outer' = IF ch = "r" THEN "Start" ELSE IF ch = "q" THEN "Done" ELSE outer
    /\ hist' = None /\ returncode' = NoExit
    /\ UNCHANGED <<ofixed, ilocals, cache, player, play_url, fetch, line, orphans,
                   quitSeen>>

\* the players that were sent terminate() have exited
OrphanExits ==
    /\ orphans > 0
    /\ orphans' = 0
    /\ UNCHANGED <<ofixed, ilocals, cache, player, play_url, fetch, hist, lastKey,
                   outer, line, quitSeen, returncode>>

\* streaming, and caching without force-refresh under the highest ceiling
OuterConfigs ==
    {c \in Configs : ~c.ForceCacheRefresh /\ c.CacheMaxFiles = MaxCacheFiles}

PlaylistLines(f) == {i \in DOMAIN f : f[i].kind = "playlist"}

\* a list-file session over any file of MaxLines lines, or the single-URL
\* session of handle_input; with caching, the list files without playlist
\* lines (the playlist session with caching starts from Init)
OuterInit ==
    /\ cfg \in OuterConfigs
    /\ video_mode = FALSE
    /\ cache = <<>>
    /\ InitLocals
    /\ ctl = NoCtl
    /\ pc = "Idle"
    /\ outer = "Begin"
    /\ lines \in ListFiles \cup {<<>>}
    /\ cfg.PlaybackMethod = "cache" => PlaylistLines(lines) = {}
    /\ line = 0
    /\ auto_mode \in (IF lines = <<>> THEN {FALSE} ELSE BOOLEAN)

OuterStep ==
    \/ ListEnd
    \/ ListSkipLine
    \/ ListEnterPlaylist
    \/ InnerReturns
    \/ OuterItemBegin
    \/ OuterStartPipe
    \/ OuterStartCache
    \/ OuterDownloadAttempt
    \/ OuterLaunch
    \/ OuterPlayerExits
    \/ OuterKeyNext
    \/ OuterKeyReplay
    \/ OuterKeyQuit
    \/ OuterKeyOther
    \/ OuterInterrupt
    \/ SinglePromptInput
    \/ OrphanExits

(* ---------------- a second session on the same cache directory ---------------- *)
\* the URLs the other session fetches
PeerUrls == {1, 2}

\* what the steps of the other session leave alone
pfixed == <<cfg, entries, pc, idx, retry_count, player, play_url, fetch, streak,
            started, fetched, scn, video_mode, records, endMsg, hvars, ovars,
            prune_in, readers, swallowed, ytdlp, ctl>>

PeerQuiet ==
    /\ lastKey' = None /\ hist' = None /\ returncode' = NoExit
    /\ UNCHANGED pfixed

\* ydl.download([url]) of the other session starts, one download at a
\* time: yt-dlp writes the stream to <stem>.<ext>.part
PeerDownloadBegins ==
    /\ peer = {}
    /\ Len(cache) <= MaxCacheFiles
    /\ \E url \in PeerUrls, video \in BOOLEAN :
         LET part  == File(Sha1(url), FormatExt(url, video), TRUE)
             whole == File(Sha1(url), FormatExt(url, video), FALSE)
         IN  /\ part \notin Range(cache) /\ whole \notin Range(cache)
             /\ cache' = Append(cache, part)
             /\ peer' = peer \cup {part}
    /\ PeerQuiet

\* the download of the other session ends: yt-dlp renames the .part file to
\* its final name, or gives up and leaves it
PeerDownloadEnds ==
    /\ \E part \in peer, ok \in BOOLEAN :
         LET whole == File(part.stem, part.ext, FALSE)
         IN  /\ peer' = peer \ {part}
             /\ cache' = IF ok /\ part \in Range(cache)
                          THEN Append(Remove(cache, part), whole)
                          ELSE cache
    /\ PeerQuiet

\* prune_cache(cfg) of the other session
PeerPrune ==
    /\ Len(cache) > cfg.CacheMaxFiles
    /\ cache' = PruneCache(cache, {})
    /\ peer' = peer
    /\ PeerQuiet

\* existing.unlink() of the other session under ForceCacheRefresh
PeerForceRefresh ==
    /\ \E url \in PeerUrls :
         /\ UrlToFilename(url) \in Range(cache)
         /\ cache' = Remove(cache, UrlToFilename(url))
    /\ peer' = peer
    /\ PeerQuiet

PeerStep ==
    \/ PeerDownloadBegins
    \/ PeerDownloadEnds
    \/ PeerPrune
    \/ PeerForceRefresh

(* ---------------- pause_cached_playback and resume_cached_playback ---------------- *)
\* what the steps of the pause/resume helpers leave alone
cfixed == <<svars, hvars, ovars, prune_in, peer, readers, swallowed, ytdlp>>

\* how proc.stdin.write(key); proc.stdin.flush() and os.kill(pid, sig) can end
IoOutcomes == {"ok", "raises"}

\* _ffplay_send_key(proc, b"p"): False for no process or an exited one, True
\* after write and flush, False without a stdin or when either call raises
FfplaySendKey(c, io) ==
    IF c.proc = None \/ c.proc = "exited" THEN FALSE
    ELSE IF c.stdin THEN io = "ok"
    ELSE FALSE

\* _suspend_process_posix / _resume_process_posix: os.kill(proc.pid, sig) in a
\* try block; proc.pid of no process raises before os.kill is called
KillCalled(c) == c.proc # None

SignalPosix(c, io) == KillCalled(c) /\ io = "ok"

\* the branch the helper takes after _ffplay_send_key returned sent
ControlBranch_Mut(sent, posix) ==
    IF posix THEN "signal"
    ELSE IF sent THEN "inband"
    ELSE "unsupported"

ControlBranch(sent, posix) ==
    IF sent THEN "inband"
    ELSE IF posix THEN "signal"
    ELSE "unsupported"

\* the helper called with the signal of its fallback; keys counts the bytes
\* written to the player's stdin
SendControl(op, sig) ==
    /\ ctl.keys < MaxCount
    /\ \E wio \in IoOutcomes, kio \in IoOutcomes :
         LET sent   == FfplaySendKey(ctl, wio)
             branch == ControlBranch(sent, ctl.posix)
             killed == branch = "signal" /\ KillCalled(ctl)
             ok     == CASE branch = "inband" -> TRUE
                         [] branch = "signal" -> SignalPosix(ctl, kio)
                         [] OTHER -> FALSE
         IN  ctl' = [ctl EXCEPT
                        !.op = op,
                        !.wrote = sent,
                        !.signal = IF killed THEN sig ELSE None,
                        !.result = ok,
                        !.keys = IF sent THEN ctl.keys + 1 ELSE ctl.keys,
                        !.stopped = IF branch = "signal" /\ ok /\ ctl.proc = "live"
                                    THEN sig = "SIGSTOP"
                                    ELSE ctl.stopped]
    /\ UNCHANGED cfixed

PauseCachedPlayback == SendControl("pause", "SIGSTOP")

ResumeCachedPlayback == SendControl("resume", "SIGCONT")

\* the player handed to the helpers exits by itself (-autoexit)
ControlledPlayerExits ==
    /\ ctl.proc = "live"
    /\ ~ctl.stopped
    /\ ctl' = [ctl EXCEPT !.proc = "exited", !.op = None, !.wrote = FALSE,
                          !.signal = None, !.result = FALSE]
    /\ UNCHANGED cfixed

\* the player's end of the stdin pipe is closed while the player runs
ControlledStdinCloses ==
    /\ ctl.proc = "live"
    /\ ctl.stdin
    /\ ctl' = [ctl EXCEPT !.stdin = FALSE, !.op = None, !.wrote = FALSE,
                          !.signal = None, !.result = FALSE]
    /\ UNCHANGED cfixed

(* ---------------- specifications ---------------- *)
SessionStep ==
    \/ OuterLoopEnter
    \/ OuterLoopExit
    \/ InnerLoopExit
    \/ StartPipe
    \/ StartCache
    \/ DownloadAttempt
    \/ Launch
    \/ PlayerExits
    \/ PromptTimeout

KeyStep ==
    \/ KeyNext
    \/ KeyReplay
    \/ KeyQuit
    \/ KeyOther
    \/ KeyboardInterrupt
    \/ PromptInput

Next == SessionStep \/ KeyStep

Spec == Init /\ [][Next]_vars

\* the session with no key ever pressed; every step that is possible is
\* eventually taken (the session thread runs, a launched player exits)
FairSpec == Init /\ [][SessionStep]_vars /\ WF_vars(SessionStep)

OuterNext == SessionStep \/ KeyStep \/ OuterStep

\* every kind of session: interactive_play on its own, play_from_list_file
\* with interactive_play run for its playlist lines, and the single-URL
\* branch of handle_input
SessionsInit == Init \/ OuterInit

SessionsSpec == SessionsInit /\ [][OuterNext]_vars

HistoryNext ==
    \/ AppendHistoryCall
    \/ ClearHistory

\* the history files under any sequence of appends and clears
HistoryInit == Init /\ cfg.PlaybackMethod = "pipe" /\ ~video_mode

HistorySpec == HistoryInit /\ [][HistoryNext]_vars

\* the steps of play_from_list_file over single-URL lines and of the
\* single-URL branch of handle_input that need no input
UnattendedNext ==
    \/ ListEnd
    \/ ListSkipLine
    \/ OuterItemBegin
    \/ OuterStartPipe
    \/ OuterStartCache
    \/ OuterDownloadAttempt
    \/ OuterLaunch
    \/ OuterPlayerExits

UnattendedInit == OuterInit /\ PlaylistLines(lines) = {}

\* these sessions with nobody at the keyboard: the session thread runs
\* whenever it can, a launched player exits
UnattendedSpec == UnattendedInit /\ [][UnattendedNext]_vars /\ WF_vars(UnattendedNext)

\* the playlist session with caching, no key pressed, next to the other session
SharedNext ==
    \/ OuterLoopEnter
    \/ OuterLoopExit
    \/ InnerLoopExit
    \/ StartCache
    \/ DownloadAttempt
    \/ Launch
    \/ PlayerExits
    \/ PromptTimeout
    \/ PeerStep

SharedInit ==
    /\ Init
    /\ cfg.PlaybackMethod = "cache" /\ cfg.CacheRetryCount = 0
    /\ cfg.CacheMaxFiles = MaxCacheFiles
    /\ ~video_mode
    /\ cache = <<>>

SharedSpec == SharedInit /\ [][SharedNext]_vars

\* the pause/resume helpers called in any order on a player handle: none, a
\* running player with or without a stdin pipe, on either kind of platform
ControlNext ==
    \/ PauseCachedPlayback
    \/ ResumeCachedPlayback
    \/ ControlledPlayerExits
    \/ ControlledStdinCloses

ControlInit ==
    /\ cfg \in Configs /\ cfg.PlaybackMethod = "cache" /\ ~cfg.ForceCacheRefresh
    /\ cfg.CacheRetryCount = 0 /\ cfg.CacheMaxFiles = MaxCacheFiles
    /\ video_mode = FALSE
    /\ cache = <<>>
    /\ InitLocals
    /\ pc = "ItemBegin" /\ outer = "off" /\ lines = <<>> /\ line = 0
    /\ auto_mode = FALSE
    /\ \E proc \in {None, "live"}, stdin \in BOOLEAN, posix \in BOOLEAN :
         /\ (proc = None => ~stdin)
         /\ ctl = [NoCtl EXCEPT !.proc = proc, !.stdin = stdin, !.posix = posix]

ControlSpec == ControlInit /\ [][ControlNext]_vars

\* the playlist session with caching, no key pressed, in a cache directory
\* where prune_cache can raise
FaultNext ==
    \/ OuterLoopEnter
    \/ OuterLoopExit
    \/ InnerLoopExit
    \/ StartCache
    \/ DownloadAttempt
    \/ DownloadAttemptPruneRaises
    \/ Launch
    \/ PlayerExits
    \/ PromptTimeout

FaultInit ==
    /\ Init
    /\ cfg.PlaybackMethod = "cache" /\ ~cfg.ForceCacheRefresh
    /\ cfg.CacheMaxFiles = MaxCacheFiles
    /\ ~video_mode
    /\ cache = <<>>

FaultSpec == FaultInit /\ [][FaultNext]_vars

\* the playlist session in pipe mode with the reader threads of its prompts
ReaderNext ==
    \/ OuterLoopEnter
    \/ OuterLoopExit
    \/ InnerLoopExit
    \/ StartPipe
    \/ Launch
    \/ PlayerExits
    \/ PromptTimeoutAbandons
    \/ StaleReaderTakesLine
    \/ KeyStep

ReaderInit == Init /\ cfg.PlaybackMethod = "pipe" /\ ~video_mode

ReaderSpec == ReaderInit /\ [][ReaderNext]_vars

\* the playlist session in pipe mode with the two processes of each pipeline
PipelineNext ==
    \/ OuterLoopEnter
    \/ OuterLoopExit
    \/ InnerLoopExit
    \/ StartPipe
    \/ LaunchPipeline
    \/ DownloaderExits
    \/ PlayerExits
    \/ PromptTimeout
    \/ KeyStep

PipelineInit == Init /\ cfg.PlaybackMethod = "pipe" /\ ~video_mode

PipelineSpec == PipelineInit /\ [][PipelineNext]_vars

(* ---------------- properties ---------------- *)
RECURSIVE SumSeq(_)
SumSeq(s) == IF s = <<>> THEN 0 ELSE Head(s) + SumSeq(Tail(s))

\* C1: an item whose player exits abnormally three times in a row with no
\* key pressed is skipped: the player is never launched a fourth time for it
C1_NoFourthLaunch == streak <= MaxTries

\* C2: a q read while the player runs terminates the player and ends the
\* session in that iteration: nothing is started or retried afterwards
C2_QuitWhilePlaying ==
    [][ /\ (pc = "Playing" /\ lastKey' = "q")
            => /\ pc' = "Done"
               /\ player' = "terminated"
               /\ idx' = idx
               /\ retry_count' = retry_count
        /\ (pc = "Done") => UNCHANGED <<pc, idx, player, retry_count, cache>> ]_vars

C2_Witness ==
    /\ pc = "Done" /\ lastKey = "q" /\ player = "terminated"
    /\ idx + 1 < Len(entries)

C4_EventuallyDone == <>(pc = "Done")

\* C5: a download_to_cache call makes at most CacheRetryCount+1 attempts,
\* returns as soon as an attempt has produced a file, and returns no path
\* only after CacheRetryCount+1 attempts that all failed
C5_AttemptBound ==
    /\ fetch.tries <= cfg.CacheRetryCount + 1
    /\ fetch.result = "pending" => ~fetch.produced
    /\ fetch.result = "none" =>
           (fetch.tries = cfg.CacheRetryCount + 1 /\ ~fetch.produced)

\* C6: the k-th backoff wait lies in [base*2^(k-1), 1.2*base*2^(k-1)], no
\* wait follows the last attempt, and a fetch that succeeds on its third
\* attempt has waited between 3.0 and 3.6 seconds in all
C6_Backoff ==
    /\ \A k \in 1..Len(fetch.waits) :
           /\ BaseDelay * (2 ^ (k - 1)) <= fetch.waits[k]
           /\ 10 * fetch.waits[k] <= 12 * BaseDelay * (2 ^ (k - 1))
    /\ fetch.result = "pending" => Len(fetch.waits) = fetch.tries
    /\ (fetch.result \in {"none", "path"} /\ ~fetch.hit)
           => Len(fetch.waits) = fetch.tries - 1
    /\ (cfg.CacheRetryCount = 3 /\ fetch.result = "path" /\ fetch.tries = 3)
           => (30 <= SumSeq(fetch.waits) /\ SumSeq(fetch.waits) <= 36)

C6_Witness ==
    /\ cfg.CacheRetryCount = 3 /\ fetch.result = "path" /\ fetch.tries = 3
    /\ Len(fetch.waits) = 2 /\ SumSeq(fetch.waits) = 36

C8_ForceRefreshRemovesOld ==
    (pc = "Fetching" /\ cfg.ForceCacheRefresh /\ fetch.hadEntry /\ fetch.tries = 0)
        => EntriesFor(Url, cache) = {}

\* C9: when download_to_cache has returned a path for a URL, the lookup of
\* that URL finds a file of the cache
C9_LookupAfterPut ==
    (pc = "Launch" /\ cfg.PlaybackMethod = "cache")
        => GetCachedFileForUrl(Url, cache) \in Range(cache)

\* C10: the cache holds at most one entry per URL, and no fetch returns a
\* partial file
C10_OneEntryPerKey ==
    /\ \A i \in 1..Len(entries) : Cardinality(EntriesFor(entries[i], cache)) <= 1
    /\ ~play_url.part

\* the number of the first j calls that have the key of call j, the key
\* being the track reference, or the playlist reference when that is absent
RefOf(r) == IF r.track_url # 0 THEN r.track_url ELSE r.playlist_url

CallsBefore(calls, j) == Cardinality({i \in 1..j : RefOf(calls[i]) = RefOf(calls[j])})

\* C12: while every read and write since the last clear has succeeded, the
\* i-th append_history call for a reference stamps play_count = i, whatever
\* was appended for other references; the reference is the track reference,
\* or the playlist reference when the track reference is absent
C12_HistoryCounts ==
    hop.clean =>
        /\ ledger.ok /\ Len(ledger.data) = Len(hop.calls)
        /\ \A j \in 1..Len(hop.calls) :
               /\ ledger.data[j].play_count = CallsBefore(hop.calls, j)
               /\ ledger.data[j].track_url = hop.calls[j].track_url
               /\ ledger.data[j].playlist_url = hop.calls[j].playlist_url
        /\ hop.op = "append" => hop.count = CallsBefore(hop.calls, Len(hop.calls))

C12_Witness ==
    /\ hop.clean /\ hop.op = "append" /\ Len(hop.calls) = 3
    /\ hop.calls[1].track_url = 2
    /\ hop.calls[2].track_url = 1
    /\ hop.calls[3].track_url = 0 /\ hop.calls[3].playlist_url = 2
    /\ ledger.data[1].play_count = 1
    /\ ledger.data[2].play_count = 1
    /\ ledger.data[3].play_count = 2

\* C13: a confirmed clear leaves the ledger and the index both empty or both
\* as they were, and the first append after a clear that reported success
\* stamps play_count = 1
C13_ClearAtomic ==
    [][ /\ hop'.op \in {"clear", "clearfail"}
            => \/ /\ LoadHistory(ledger', TRUE) = <<>>
                  /\ LoadIndex(hindex', TRUE) = EmptyIndex
               \/ /\ ledger' = ledger
                  /\ hindex' = hindex
        /\ (hop.op = "clear" /\ hop'.op = "append") => hop'.count = 1 ]_vars

\* the n files of a directory with the newest access times
Newest(files, n) ==
    IF Len(files) > n THEN SubSeq(files, Len(files) - n + 1, Len(files)) ELSE files

\* C11: a prune_cache call in which no unlink fails, on a directory of N+k
\* files with CacheMaxFiles = N, removes the k files with the oldest access
\* times and leaves the N newest; on at most N files it removes nothing
C11_Eviction ==
    [][ (prune_in' # prune_in /\ prune_in'.locked = {})
            => /\ prune_in'.files = cache
               /\ prune_in'.max_files = cfg.CacheMaxFiles
               /\ cache' = Newest(cache, cfg.CacheMaxFiles)
               /\ Len(cache) <= cfg.CacheMaxFiles => cache' = cache
               /\ Len(cache) > cfg.CacheMaxFiles => Len(cache') = cfg.CacheMaxFiles ]_vars

C11_Witness ==
    /\ prune_in.locked = {}
    /\ Len(prune_in.files) = prune_in.max_files + 2
    /\ prune_in.max_files = cfg.CacheMaxFiles
    /\ Len(cache) = cfg.CacheMaxFiles
    /\ cache = Newest(prune_in.files, cfg.CacheMaxFiles)
    /\ prune_in.files[1] \notin Range(cache)
    /\ prune_in.files[2] \notin Range(cache)

\* the player processes that may be running
LiveCount == orphans + (IF player = "live" THEN 1 ELSE 0)

\* C14: in playlist, single-URL and list-file sessions at most one player
\* process started by the session is running at any time
C14_OnePlayerLive == LiveCount <= 1

C16_AutoModeSilent ==
    (IsList /\ auto_mode) => (pc # "Prompt" /\ lastKey \in {None, "^C"})

\* C17: when download_to_cache returns no path the session starts no player
\* for the item, leaves it for the next one (or ends) and never comes back
\* to it
C17_FetchFailureSkips ==
    [][ /\ (pc = "Fetching" /\ fetch'.result = "none")
            => (idx' = idx + 1 /\ pc' = "ItemBegin" /\ player' = player)
        /\ (outer = "Fetching" /\ fetch'.result = "none")
            => /\ player' = player
               /\ IF IsList THEN (line' = line + 1 /\ outer' = "Begin")
                            ELSE outer' = "Done"
        /\ (pc \in {"Starting", "Fetching", "Launch", "Playing", "Prompt"})
            => idx' >= idx
        /\ line' >= line
        /\ (outer = "Done") => outer' = "Done" ]_vars

C17_Witness ==
    /\ IsList /\ outer = "Begin" /\ line = 1
    /\ fetch.result = "none" /\ fetch.tries = cfg.CacheRetryCount + 1
    /\ player = None /\ orphans = 0

\* C18: when play_stream returns no handle the session leaves the item for
\* the next one: it does not launch again for it, does not end, and the
\* retry counter is not touched
C18_LaunchFailureSkips ==
    [][ (pc = "Launch" /\ pc' # "Playing")
            => /\ idx' = idx + 1
               /\ pc' = "ItemBegin"
               /\ retry_count' = retry_count
               /\ player' = player ]_vars

C18_Witness ==
    /\ cfg.PlaybackMethod = "pipe" /\ pc = "ItemBegin" /\ idx = 1
    /\ player = None /\ retry_count = 0 /\ lastKey = None

\* C19: however the append_history call of an item ends, the session goes
\* on to the same place with the same state of playback
C19_HistoryBestEffort ==
    [][ /\ (pc = "ItemBegin" /\ idx < Len(entries) /\ orphans' = orphans)
            => /\ pc' = "Starting" /\ idx' = idx /\ retry_count' = 0
               /\ hist' \in HistoryOutcomes
               /\ UNCHANGED <<cache, player, play_url, outer, line>>
        /\ (outer = "Begin" /\ hist' # None)
            => /\ outer' = "Start"
               /\ UNCHANGED <<cache, player, play_url, pc, idx, line>>
        /\ (hist' # None) => (pc' = "Starting" \/ outer' = "Start") ]_vars

C19_Witness ==
    /\ hist = "raised" /\ pc = "Starting" /\ idx = 1 /\ retry_count = 0

\* C20: after a q read while an entry of a playlist line was playing, no
\* player is started for a later line of the list file
C20_QuitEndsListSession == quitSeen => player # "live"

\* C21: in a playlist session a player that exits after n, r or q was read,
\* with whatever exit code, does not raise the retry counter; the counter
\* rises only by one, on an exit with a nonzero code that no key caused, and
\* the item is then started again
C21_RetryOnlyAbnormal ==
    [][ /\ (pc = "Playing" /\ lastKey' \in {"n", "r", "q"})
            => retry_count' <= retry_count
        /\ (retry_count' > retry_count)
            => /\ pc = "Playing"
               /\ lastKey' = None
               /\ returncode' \in ExitCodes \ {0}
               /\ retry_count' = retry_count + 1
               /\ pc' = "Starting"
               /\ idx' = idx
        /\ (pc = "Playing" /\ lastKey' = None /\ returncode' = 0)
            => (retry_count' = retry_count /\ pc' = "Prompt") ]_vars

C21_Witness ==
    /\ lastKey = "n" /\ returncode = 1 /\ player = "reaped"
    /\ pc = "ItemBegin" /\ idx = 1 /\ retry_count = 2

\* C22: in a playlist session an r read while the player runs or at the
\* natural-end prompt starts the same item again with the retry counter at
\* 0 and the index unchanged; the counter of a running item never holds
\* more exits than the launches made since the item began or was replayed
C22_ReplayResetsBudget ==
    [][ /\ (pc \in {"Playing", "Prompt"} /\ lastKey' = "r")
            => /\ pc' = "Starting"
               /\ retry_count' = 0
               /\ streak' = 0
               /\ idx' = idx
        /\ (pc = "Starting" /\ retry_count = 0)
            => (pc' \in {"Launch", "Fetching"} /\ idx' = idx /\ retry_count' = 0)
        /\ (pc' = "Playing") => retry_count' + 1 <= streak' ]_vars

C22_Witness ==
    /\ lastKey = "r" /\ returncode = 1 /\ player = "reaped"
    /\ pc = "Starting" /\ idx = 1 /\ retry_count = 0 /\ streak = 0

\* C23: in a list-file session without auto_mode, an r read while the
\* player of a single-URL line runs terminates the player and starts the
\* same line again; the session does not go on to the next line
C23_ListReplaySameItem ==
    [][ (IsList /\ ~auto_mode /\ outer = "Playing" /\ lastKey' = "r")
            => /\ player' # "live"
               /\ line' = line
               /\ outer' = "Start" ]_vars

\* C24: in a list-file session a single-URL line whose player exits with a
\* nonzero code, no key read, is started again and not left for the next line
C24_ListRetry ==
    [][ (IsList /\ outer = "Playing" /\ lastKey' = None /\ returncode' = 1)
            => /\ line' = line
               /\ outer' \in {"Start", "Launch"} ]_vars

\* C25: a single-URL session in which no input ever arrives reaches its end
C25_PromptNeverBlocks == (lines = <<>>) => <>(outer = "Done")

\* C26: a prune_cache call in which the unlink of some files fails goes on
\* with the next-oldest files: the files that cannot be deleted stay, and
\* when they are at most CacheMaxFiles the directory ends with at most
\* CacheMaxFiles files
C26_EvictionSkipsUndeletable ==
    [][ (prune_in' # prune_in)
            => /\ prune_in'.files = cache
               /\ \A f \in prune_in'.locked : f \in Range(cache')
               /\ (Cardinality(prune_in'.locked) <= cfg.CacheMaxFiles)
                      => Len(cache') <= cfg.CacheMaxFiles ]_vars

\* the records of a are the first records of b, in the same order
IsPrefix(a, b) == Len(a) <= Len(b) /\ SubSeq(b, 1, Len(a)) = a

\* C27: an append_history call, whichever of its reads and writes fail,
\* leaves every record the ledger held before the call in the ledger,
\* unchanged and in the same order
C27_LedgerAppendOnly ==
    [][ (hop'.op = "append" /\ ledger.ok)
            => /\ ledger'.ok
               /\ IsPrefix(ledger.data, ledger'.data) ]_vars

\* C28: in a playlist session append_history is called exactly once for
\* each item the session begins, before the first launch for the item, and
\* not again by retries after abnormal exits or by replays
C28_OneRecordPerItem ==
    /\ records.count <= 1
    /\ (pc \in {"Starting", "Fetching", "Launch", "Playing", "Prompt"})
           => (records.idx = idx /\ records.count = 1)

\* C29: a playlist session that has reached Done has printed the
\* end-of-session message exactly once, however Done was reached
C29_EndMessageOnce ==
    /\ endMsg <= 1
    /\ (pc = "Done") => endMsg = 1

\* C30: with PlaybackMethod cache a player is started for an item only
\* after download_to_cache has returned a path for that item, its target is
\* that path, and while the fetch is in progress no key is read and no
\* player is running
C30_DownloadBlocksPlayback ==
    [][ /\ (cfg.PlaybackMethod = "cache" /\ pc = "Launch" /\ player' = "live")
            => /\ fetch.result = "path"
               /\ play_url' = play_url
               /\ play_url.stem = Sha1(Url) /\ play_url \in Range(cache)
        /\ (cfg.PlaybackMethod = "cache" /\ outer = "Launch" /\ player' = "live")
            => /\ fetch.result = "path"
               /\ play_url' = play_url
               /\ play_url.stem = Sha1(OuterUrl) /\ play_url \in Range(cache)
        /\ (pc' = "Fetching" \/ outer' = "Fetching")
            => (LiveCount' = 0 /\ lastKey' = None) ]_vars

\* C31: with a second session working on the same cache directory, a path
\* returned by download_to_cache is never a file that is still being
\* written, nor a partial file
C31_NoHalfWrittenEntry ==
    [][ (fetch'.result = "path" /\ fetch.result # "path")
            => (play_url' \notin peer' /\ ~play_url'.part) ]_vars

\* C32: after a call of pause_cached_playback or resume_cached_playback, the
\* OS signal was sent only when the write of `p` to the player's stdin did
\* not succeed and the platform is posix; a call whose write succeeded
\* returns True with no signal sent; a call whose write did not succeed on a
\* platform without the signals returns False
C32_ControlFallback ==
    (ctl.op # None) =>
        /\ (ctl.signal # None => ~ctl.wrote /\ ctl.posix)
        /\ (ctl.wrote => ctl.result /\ ctl.signal = None)
        /\ (~ctl.wrote /\ ~ctl.posix => ~ctl.result /\ ctl.signal = None)
        /\ (~ctl.wrote /\ ctl.posix /\ ctl.proc # None
                => ctl.signal = (IF ctl.op = "pause" THEN "SIGSTOP" ELSE "SIGCONT"))

\* C32: after an earlier call that wrote its key, a pause on a posix platform
\* whose write was refused went on to SIGSTOP and returned True
C32_Witness ==
    /\ ctl.op = "pause" /\ ctl.posix /\ ~ctl.wrote
    /\ ctl.signal = "SIGSTOP" /\ ctl.result /\ ctl.keys > 0

\* C33: in a playlist session every step leaves the index where it is or adds
\* one to it and keeps it within 0..len(entries); a player is started only for
\* the item at the index, which is below len(entries); the session ends only
\* with the index at len(entries) or on a quit of the user (q, Ctrl-C), and
\* with the index at len(entries) it does nothing but end
C33_IndexOrder ==
    [][ /\ idx' \in {idx, idx + 1}
        /\ idx' \in 0..Len(entries)
        /\ (pc = "Launch" /\ pc' = "Playing" => idx' = idx /\ idx < Len(entries))
        /\ (player' = "live" /\ player # "live" => pc = "Launch")
        /\ (pc' = "Done" /\ pc # "Done"
               => idx' = Len(entries) \/ lastKey' \in {"q", "^C"})
        /\ (idx' = Len(entries) => pc' \in {"ItemBegin", "Done"})
        /\ (idx = Len(entries) /\ pc = "ItemBegin" => pc' = "Done") ]_vars

\* C33: a session that played its way to the end of the list without a quit
C33_Witness ==
    /\ pc = "Done" /\ idx = Len(entries) /\ endMsg = 1
    /\ player = "reaped" /\ lastKey = None

\* C34: the retry counter of a playlist session is always within 0..3, it is
\* 0 when an item has just begun (append_history was just called for it), and
\* the launches of one item since it began or since the last user action
\* never exceed 3
C34_RetryCounter ==
    /\ retry_count \in 0..MaxTries
    /\ (pc = "Starting" /\ hist # None => retry_count = 0)
    /\ streak <= MaxTries

\* C35: a path returned by download_to_cache is a file of the cache directory
\* after the eviction pass of the same call, and the file written by the first
\* successful download of a call is still there after that pass
C35_ReturnedPathExists ==
    [][ /\ (fetch'.result = "path" /\ fetch.result # "path"
               => play_url' \in Range(cache') /\ Len(cache') >= 1)
        /\ LET whole == File(Sha1(Url), FormatExt(Url, video_mode), FALSE)
           IN  (pc = "Fetching" /\ ~fetch.produced /\ fetch'.produced
                    /\ whole \notin Range(cache))
                 => whole \in Range(cache') ]_vars

\* C35: the first item was downloaded into a full cache directory, the oldest
\* file was evicted, and the path of the new file was returned
C35_Witness ==
    /\ idx = 0 /\ pc = "Launch" /\ fetch.result = "path" /\ ~fetch.hit
    /\ cfg.CacheMaxFiles = 2
    /\ play_url = File(Sha1(1), "mp4", FALSE)
    /\ cache = <<File(Sha1(2), "webm", FALSE), play_url>>

\* C36: an iteration of the retry loop whose download succeeded and whose
\* eviction pass raised ends the call with the downloaded path: no attempt is
\* counted, no backoff wait is added, the item is not given up
C36_EvictionErrorKeepsDownload ==
    [][ (prune_in'.raised /\ prune_in' # prune_in)
            => /\ fetch'.result = "path"
               /\ fetch'.attempt = fetch.attempt
               /\ fetch'.waits = fetch.waits
               /\ play_url' \in Glob(Sha1(Url), cache') ]_vars

\* C37: whatever appends and clears were made, with reads and writes that
\* fail among them, for every key the count in the index file equals the
\* number of ledger records of the key and, when there are such records, the
\* play_count of the last of them
C37_IndexMatchesLedger ==
    \A k \in HistoryKeys :
        LET counts == LoadIndex(hindex, TRUE)
            h      == LoadHistory(ledger, TRUE)
            recs   == {i \in 1..Len(h) : RefOf(h[i]) = k}
            last   == CHOOSE i \in recs : \A j \in recs : j <= i
        IN  /\ counts[k] = Cardinality(recs)
            /\ (recs # {} => h[last].play_count = counts[k])

\* C38: no q, n or r typed while an item plays or while its prompt waits is
\* taken by the reader thread of an earlier prompt: every such line is read
\* by the session
C38_NoStolenInput == swallowed = None

\* C39: in pipe mode, when the session leaves a playing item on n, r or q,
\* neither the player nor the yt-dlp process started for the item is live
\* after the step
C39_NoOrphanedPipeline ==
    [][ (pc = "Playing" /\ lastKey' \in {"n", "r", "q"})
            => (player' # "live" /\ ytdlp'.cur # "live") ]_vars

====
